---- MODULE Spec2Model ----
(***************************************************************************)
(* HAR cookie / URL extraction (browser_use/browser/utils/har_loader.py)   *)
(* and its session adapter (browser_use/browser/extensions/                *)
(* har_extension.py), as a state machine of one call at a time.            *)
(*                                                                         *)
(* Python strings are sequences of one-character strings, so that suffix   *)
(* matching, f-string concatenation, URL splitting and float() parsing are *)
(* computed, not assumed.  A JSON/Python value is a record [t, s, n]:      *)
(* t is its type tag, s its characters (strings), n its number.            *)
(***************************************************************************)
EXTENDS Integers, Sequences, FiniteSets, TLC

\* ------------------------------------------------------------------ bounds
\* Most entries in one HAR document.
MaxEntries == 2
\* Most request cookies in one HAR document (over all its entries).
MaxCookies == 2

\* ------------------------------------------------------------------ values
Val(t, s, n) == [t |-> t, s |-> s, n |-> n]
\* A key that the JSON object does not have.
Absent == Val("absent", <<>>, 0)
\* JSON null, Python None.
None == Val("none", <<>>, 0)
StrV(s) == Val("str", s, 0)
IntV(n) == Val("int", <<>>, n)
FloatV(n) == Val("float", <<>>, n)
\* JSON true/false, Python bool (a subclass of int).
BoolV(b) == Val("bool", <<>>, IF b THEN 1 ELSE 0)
\* A JSON array / object given where a scalar is expected.
List == Val("list", <<>>, 0)
Dict == Val("dict", <<>>, 0)

\* d.get(key, default): the default only when the key is missing; a key
\* holding null yields None.
Get(v, default) == IF v.t = "absent" THEN default ELSE v

\* ----------------------------------------------------------------- strings
\* s.endswith(d)
EndsWith(s, d) ==
  /\ Len(d) <= Len(s)
  /\ SubSeq(s, Len(s) - Len(d) + 1, Len(s)) = d

\* Index of the first character of s at or after position from that is in
\* chars; Len(s) + 1 when there is none.
RECURSIVE FindFirst(_, _, _)
FindFirst(s, chars, from) ==
  IF from > Len(s) THEN Len(s) + 1
  ELSE IF s[from] \in chars THEN from
  ELSE FindFirst(s, chars, from + 1)

LetterChars == {"a", "b", "c", "d", "h", "p", "x", "N", "o", "n", "e"}
DigitChars == {"0", "1", "2", "3", "4", "5", "6", "7", "8", "9"}
SchemeChars == LetterChars \cup DigitChars \cup {"+", "-", "."}

\* urlsplit's scheme step: the text before the first ':' is a scheme when it
\* starts with a letter and holds only scheme characters; the rest follows.
AfterScheme(url) ==
  LET i == FindFirst(url, {":"}, 1)
  IN IF /\ i <= Len(url)
        /\ i > 1
        /\ url[1] \in LetterChars
        /\ \A k \in 1..(i - 1) : url[k] \in SchemeChars
     THEN SubSeq(url, i + 1, Len(url))
     ELSE url

\* urlparse(url).netloc: what follows a leading '//' up to the first of
\* '/', '?', '#'; the empty string when the rest does not start with '//'.
\* Userinfo and port stay in it.
Netloc(url) ==
  LET rest == AfterScheme(url)
  IN IF Len(rest) >= 2 /\ rest[1] = "/" /\ rest[2] = "/"
     THEN SubSeq(rest, 3, FindFirst(rest, {"/", "?", "#"}, 3) - 1)
     ELSE <<>>

DigitValue(c) ==
  CASE c = "0" -> 0 [] c = "1" -> 1 [] c = "2" -> 2 [] c = "3" -> 3
    [] c = "4" -> 4 [] c = "5" -> 5 [] c = "6" -> 6 [] c = "7" -> 7
    [] c = "8" -> 8 [] c = "9" -> 9

RECURSIVE DigitsValue(_)
DigitsValue(s) ==
  IF s = <<>> THEN 0
  ELSE 10 * DigitsValue(SubSeq(s, 1, Len(s) - 1)) + DigitValue(s[Len(s)])

\* float(v) for the values of this model: a string of decimal digits parses
\* to its value, any other string raises ValueError, a list, a dict or None
\* raises TypeError, a number converts.
PyFloat(v) ==
  CASE v.t = "str" ->
         IF v.s # <<>> /\ \A k \in 1..Len(v.s) : v.s[k] \in DigitChars
         THEN [ok |-> TRUE, val |-> FloatV(DigitsValue(v.s)), err |-> "none"]
         ELSE [ok |-> FALSE, val |-> None, err |-> "ValueError"]
    [] v.t \in {"int", "float", "bool"} ->
         [ok |-> TRUE, val |-> FloatV(v.n), err |-> "none"]
    [] OTHER ->
         [ok |-> FALSE, val |-> None, err |-> "TypeError"]

\* str(v) as an f-string renders it: a string as itself, None as "None".
PyStr(v) ==
  CASE v.t = "str" -> v.s
    [] v.t = "none" -> <<"N", "o", "n", "e">>
    [] v.t = "bool" -> IF v.n = 1 THEN <<"T", "r", "u", "e">>
                                 ELSE <<"F", "a", "l", "s", "e">>

\* ----------------------------------------------------------------- cookies
\* A raw cookie of a HAR entry: each of its eight keys holds a value or is
\* Absent.
RawCookie(name, domain, value, expires, path) ==
  [name |-> name, value |-> value, domain |-> domain, path |-> path,
   expires |-> expires, httpOnly |-> Absent, secure |-> Absent,
   sameSite |-> Absent]

\* A key that also tells cookies of one (name, domain) apart by their value.
CookieKeyWithValue(cookie) ==
  PyStr(Get(cookie.name, None)) \o <<"@">> \o PyStr(Get(cookie.domain, None))
    \o <<"@">> \o PyStr(Get(cookie.value, None))

\* cookie_key = f"{cookie.get('name')}@{cookie.get('domain')}"
CookieKey(cookie) ==
  PyStr(Get(cookie.name, None)) \o <<"@">> \o PyStr(Get(cookie.domain, None))

\* isinstance(v, (int, float)); bool is a subclass of int.
IsIntOrFloat(v) == v.t \in {"int", "float", "bool"}

\* The expires field of the emitted record.
ExpiresValue(cookie) ==
  LET expires_value == Get(cookie.expires, IntV(-1))
  IN IF expires_value.t # "none" /\ ~IsIntOrFloat(expires_value)
     THEN IF PyFloat(expires_value).ok
          THEN PyFloat(expires_value).val
          ELSE IntV(-1)
     ELSE expires_value

\* The record handed to Playwright.
CookieObj(cookie) ==
  [name |-> Get(cookie.name, None),
   value |-> Get(cookie.value, None),
   domain |-> Get(cookie.domain, None),
   path |-> Get(cookie.path, StrV(<<"/">>)),
   expires |-> ExpiresValue(cookie),
   httpOnly |-> Get(cookie.httpOnly, BoolV(FALSE)),
   secure |-> Get(cookie.secure, BoolV(FALSE)),
   sameSite |-> Get(cookie.sameSite, StrV(<<"L", "a", "x">>))]

\* ----------------------------------------------------------------- filters
\* An optional list argument: t is "unsupplied" (the caller left it out),
\* "none" (None) or "list" (v, the list).
Unsupplied == [t |-> "unsupplied", v |-> <<>>]
NoFilter == [t |-> "none", v |-> <<>>]
ListOf(v) == [t |-> "list", v |-> v]

\* Python truthiness of an Optional[List]: a non-empty list.
Truthy(f) == f.t = "list" /\ f.v # <<>>

\* A parameter's value: its default when the caller left it out.
Bind(arg, default) == IF arg.t = "unsupplied" THEN default ELSE arg

\* The domain test of both loops: with a truthy filter, the URL's netloc
\* must end with one of its members.
DomainKept(url, fd) ==
  IF Truthy(fd)
  THEN \E k \in 1..Len(fd.v) : EndsWith(Netloc(url), fd.v[k])
  ELSE TRUE

\* The status test of the URL loop: with a truthy filter, the status must be
\* one of its members.
StatusKept(status, sf) ==
  IF Truthy(sf)
  THEN \E k \in 1..Len(sf.v) : sf.v[k] = status.n
  ELSE TRUE

\* entry.get('request', {}).get('url', '')
RequestUrl(entry) == Get(entry.url, StrV(<<>>)).s
\* entry.get('response', {}).get('status', 0)
ResponseStatus(entry) == Get(entry.status, IntV(0))

\* An append that drops a URL already in the list.
AppendUrlOnce(us, url) ==
  IF \E k \in 1..Len(us) : us[k] = url THEN us ELSE Append(us, url)

\* urls.append(url)
AppendUrl(us, url) == Append(us, url)

\* An injection that is not guarded by the list being non-empty.
AlwaysInject(cs) == TRUE

\* `if cookies:` before the injection.
ShouldInject(cs) == cs # <<>>

\* A session test that forgets session.context.
SessionNotNone(s) == s # "none"

\* `not session or not session.context`, negated: get_session gave a
\* session ("none" when it gave None) with a context ("nocontext" when its
\* context is None).
SessionUsable(s) == s = "ok"

\* An open that creates the file it does not find.
OpenCreating(kind) == "ok"

\* open(path, 'r'): a path that names nothing raises FileNotFoundError.
OpenResult(kind) == IF kind = "missing" THEN "FileNotFoundError" ELSE "ok"

\* Path(path).exists()
PathExists(kind) == kind # "missing"

\* ------------------------------------------------------------------ inputs
U_ac == <<"h", ":", "/", "/", "a", ".", "c", "/", "p">>
U_ac8 == <<"h", ":", "/", "/", "a", ".", "c", ":", "8", "/", "p">>
U_xd == <<"h", ":", "/", "/", "x", ".", "d", "/">>

K1 == RawCookie(StrV(<<"a">>), StrV(<<"c">>), StrV(<<"1">>),
                StrV(<<"1", "7">>), Absent)
K2 == RawCookie(StrV(<<"a">>), StrV(<<"c">>), StrV(<<"2">>),
                None, StrV(<<"/", "p">>))
K3 == RawCookie(StrV(<<"a", "@", "b">>), StrV(<<"c">>), StrV(<<"1">>),
                StrV(<<"x">>), Absent)
K4 == RawCookie(StrV(<<"a">>), StrV(<<"b", "@", "c">>), StrV(<<"1">>),
                Absent, Absent)
K5 == RawCookie(Absent, StrV(<<"x", ".", "d">>), Absent, List, Absent)
CookiePool == {K1, K2, K3, K4, K5}

CookieUrls == {StrV(U_ac), StrV(U_xd)}
UrlPool == {StrV(U_ac), StrV(U_ac8), StrV(U_xd), Absent}
StatusPool == {Absent, IntV(200), IntV(404)}
DomainFilters == {NoFilter, ListOf(<<>>), ListOf(<<<<"a", ".", "c">>>>)}
StatusArgs == {Unsupplied, NoFilter, ListOf(<<>>), ListOf(<<200>>)}

Entry(url, status, cl) == [url |-> url, status |-> status, cookies |-> cl]

CookieLists(k) == UNION {[1..m -> CookiePool] : m \in 0..k}

\* The documents of exactly n entries holding at most k cookies in all.
RECURSIVE CookieDocs(_, _)
CookieDocs(n, k) ==
  IF n = 0 THEN {<<>>}
  ELSE UNION {{<<Entry(u, Absent, cl)>> \o d : d \in CookieDocs(n - 1, k - Len(cl))} :
                u \in CookieUrls, cl \in CookieLists(k)}

UrlEntries == {Entry(u, st, <<>>) : u \in UrlPool, st \in StatusPool}
UrlDocs == UNION {[1..n -> UrlEntries] : n \in 0..MaxEntries}

\* A path names no file, a file that is not JSON, or a HAR document.
File(kind, entries) == [kind |-> kind, entries |-> entries]
BadFiles == {File("missing", <<>>), File("malformed", <<>>)}
CookieFiles ==
  BadFiles \cup
  {File("valid", d) : d \in UNION {CookieDocs(n, MaxCookies) : n \in 0..MaxEntries}}
UrlFiles == BadFiles \cup {File("valid", d) : d \in UrlDocs}

\* ------------------------------------------------------------------- state
VARIABLES
  op,                \* the operation called
  pc,                \* its position
  file,              \* what har_file_path names
  filter_domains,    \* the filter_domains argument
  status_arg,        \* the status_filter argument as the caller gave it
  status_filter,     \* HarLoader.extract_urls_from_har's status_filter
  session,           \* what context.get_session() returned
  i, j,              \* entry and cookie being processed (1-based)
  cookies,           \* load_cookies_from_har's cookies list
  processed_cookies, \* its processed_cookies set
  urls,              \* extract_urls_from_har's urls list
  opened,            \* the file was opened
  parsed,            \* json.load was started
  add_cookies_calls, \* the arguments of each context.add_cookies call
  jar,               \* the session's cookie jar
  exc,               \* the exception raised inside HarLoader, "none" if none
  outcome,           \* "running", "returned", or the exception raised
  result             \* the list HarLoader returned

vars == <<op, pc, file, filter_domains, status_arg, status_filter, session,
          i, j, cookies, processed_cookies, urls, opened, parsed,
          add_cookies_calls, jar, exc, outcome, result>>

InitLocals ==
  /\ session = "pending"
  /\ i = 1 /\ j = 1
  /\ cookies = <<>> /\ processed_cookies = {} /\ urls = <<>>
  /\ opened = FALSE /\ parsed = FALSE
  /\ add_cookies_calls = <<>> /\ jar = <<>>
  /\ exc = "none" /\ outcome = "running" /\ result = <<>>

InitCookieCall ==
  /\ op \in {"load_from_har", "load_cookies_from_har"}
  /\ pc = IF op = "load_from_har" THEN "lfh_session" ELSE "lc_exists"
  /\ file \in CookieFiles
  /\ filter_domains \in DomainFilters
  /\ status_arg = Unsupplied
  /\ status_filter = NoFilter

InitUrlCall ==
  /\ op \in {"extract_urls_from_har", "ext_extract_urls_from_har"}
  /\ pc = IF op = "ext_extract_urls_from_har" THEN "ext_call" ELSE "eu_open"
  /\ file \in UrlFiles
  /\ filter_domains \in DomainFilters
  /\ status_arg \in StatusArgs
  /\ status_filter = IF op = "extract_urls_from_har"
                     THEN Bind(status_arg, NoFilter) ELSE NoFilter

Init == InitLocals /\ (InitCookieCall \/ InitUrlCall)

\* ----------------------------------------------------------------- actions
\* An exception leaves HarLoader: load_from_har's except clause catches it,
\* a direct caller receives it.
Raise(e) ==
  /\ exc' = e
  /\ IF op = "load_from_har"
     THEN pc' = "lfh_except" /\ outcome' = outcome
     ELSE pc' = "done" /\ outcome' = e

\* load_cookies_from_har returns its cookies list.
ReturnCookies ==
  /\ result' = cookies
  /\ exc' = exc
  /\ IF op = "load_from_har"
     THEN pc' = "lfh_after" /\ outcome' = outcome
     ELSE pc' = "done" /\ outcome' = "returned"

\* HarExtension.load_from_har: get the session, return early without one.
LFH_GetSession ==
  /\ pc = "lfh_session"
  /\ \E s \in {"none", "nocontext", "ok"} :
       /\ session' = s
       /\ IF SessionUsable(s)
          THEN pc' = "lc_exists" /\ outcome' = outcome
          ELSE pc' = "done" /\ outcome' = "returned"
  /\ UNCHANGED <<op, file, filter_domains, status_arg, status_filter, i, j,
                 cookies, processed_cookies, urls, opened, parsed,
                 add_cookies_calls, jar, exc, result>>

\* load_cookies_from_har: the existence check.
LC_CheckExists ==
  /\ pc = "lc_exists"
  /\ IF PathExists(file.kind)
     THEN pc' = "lc_open" /\ UNCHANGED <<exc, outcome>>
     ELSE Raise("FileNotFoundError")
  /\ UNCHANGED <<op, file, filter_domains, status_arg, status_filter, session,
                 i, j, cookies, processed_cookies, urls, opened, parsed,
                 add_cookies_calls, jar, result>>

\* load_cookies_from_har: open the file and json.load it.
LC_Open ==
  /\ pc = "lc_open"
  /\ IF OpenResult(file.kind) # "ok"
     THEN Raise(OpenResult(file.kind)) /\ UNCHANGED <<opened, parsed>>
     ELSE /\ opened' = TRUE
          /\ parsed' = TRUE
          /\ IF file.kind = "malformed"
             THEN Raise("JSONDecodeError")
             ELSE pc' = "lc_loop" /\ UNCHANGED <<exc, outcome>>
  /\ UNCHANGED <<op, file, filter_domains, status_arg, status_filter, session,
                 i, j, cookies, processed_cookies, urls, add_cookies_calls,
                 jar, result>>

\* load_cookies_from_har: the next entry, kept or skipped by the domain
\* filter.
LC_Entry ==
  /\ pc = "lc_loop"
  /\ i <= Len(file.entries)
  /\ IF DomainKept(RequestUrl(file.entries[i]), filter_domains)
     THEN pc' = "lc_cookie" /\ j' = 1 /\ i' = i
     ELSE pc' = pc /\ j' = j /\ i' = i + 1
  /\ UNCHANGED <<op, file, filter_domains, status_arg, status_filter, session,
                 cookies, processed_cookies, urls, opened, parsed,
                 add_cookies_calls, jar, exc, outcome, result>>

\* load_cookies_from_har: the next request cookie of a kept entry.
LC_Cookie ==
  /\ pc = "lc_cookie"
  /\ j <= Len(file.entries[i].cookies)
  /\ LET cookie == file.entries[i].cookies[j]
         cookie_key == CookieKey(cookie)
     IN IF cookie_key \in processed_cookies
        THEN UNCHANGED <<cookies, processed_cookies>>
        ELSE /\ processed_cookies' = processed_cookies \cup {cookie_key}
             /\ cookies' = Append(cookies, CookieObj(cookie))
  /\ j' = j + 1
  /\ UNCHANGED <<op, pc, file, filter_domains, status_arg, status_filter,
                 session, i, urls, opened, parsed, add_cookies_calls, jar,
                 exc, outcome, result>>

\* load_cookies_from_har: the entry's response headers are scanned and
\* nothing is taken from them; on to the next entry.
LC_Headers ==
  /\ pc = "lc_cookie"
  /\ j > Len(file.entries[i].cookies)
  /\ pc' = "lc_loop"
  /\ i' = i + 1
  /\ UNCHANGED <<op, file, filter_domains, status_arg, status_filter, session,
                 j, cookies, processed_cookies, urls, opened, parsed,
                 add_cookies_calls, jar, exc, outcome, result>>

\* load_cookies_from_har: after the loop, inject the cookies if there are
\* any, and return them.  context.add_cookies may raise.
LC_AddCookies ==
  /\ pc = "lc_loop"
  /\ i > Len(file.entries)
  /\ IF ShouldInject(cookies)
     THEN /\ add_cookies_calls' = Append(add_cookies_calls, cookies)
          /\ \E fails \in BOOLEAN :
               IF fails
               THEN Raise("AddCookiesError") /\ UNCHANGED <<jar, result>>
               ELSE jar' = jar \o cookies /\ ReturnCookies
     ELSE /\ UNCHANGED <<add_cookies_calls, jar>>
          /\ ReturnCookies
  /\ UNCHANGED <<op, file, filter_domains, status_arg, status_filter, session,
                 i, j, cookies, processed_cookies, urls, opened, parsed>>

\* load_from_har: the call in the try block returned.
LFH_Return ==
  /\ pc = "lfh_after"
  /\ pc' = "done"
  /\ outcome' = "returned"
  /\ UNCHANGED <<op, file, filter_domains, status_arg, status_filter, session,
                 i, j, cookies, processed_cookies, urls, opened, parsed,
                 add_cookies_calls, jar, exc, result>>

\* An except clause that logs the exception and does not raise it again.
LFH_ExceptSwallow ==
  /\ pc = "lfh_except"
  /\ pc' = "done"
  /\ outcome' = "returned"
  /\ UNCHANGED <<op, file, filter_domains, status_arg, status_filter, session,
                 i, j, cookies, processed_cookies, urls, opened, parsed,
                 add_cookies_calls, jar, exc, result>>

\* load_from_har: the except clause logs the exception and raises it again.
LFH_Except ==
  /\ pc = "lfh_except"
  /\ pc' = "done"
  /\ outcome' = exc
  /\ UNCHANGED <<op, file, filter_domains, status_arg, status_filter, session,
                 i, j, cookies, processed_cookies, urls, opened, parsed,
                 add_cookies_calls, jar, exc, result>>

\* HarExtension.extract_urls_from_har: status_filter defaults to [200]; the
\* call is passed on to HarLoader.
Ext_Call ==
  /\ pc = "ext_call"
  /\ status_filter' = Bind(status_arg, ListOf(<<200>>))
  /\ pc' = "eu_open"
  /\ UNCHANGED <<op, file, filter_domains, status_arg, session, i, j, cookies,
                 processed_cookies, urls, opened, parsed, add_cookies_calls,
                 jar, exc, outcome, result>>

\* HarLoader.extract_urls_from_har: open the file and json.load it.
EU_Open ==
  /\ pc = "eu_open"
  /\ IF OpenResult(file.kind) # "ok"
     THEN Raise(OpenResult(file.kind)) /\ UNCHANGED <<opened, parsed>>
     ELSE /\ opened' = TRUE
          /\ parsed' = TRUE
          /\ IF file.kind = "malformed"
             THEN Raise("JSONDecodeError")
             ELSE pc' = "eu_loop" /\ UNCHANGED <<exc, outcome>>
  /\ UNCHANGED <<op, file, filter_domains, status_arg, status_filter, session,
                 i, j, cookies, processed_cookies, urls, add_cookies_calls,
                 jar, result>>

\* HarLoader.extract_urls_from_har: the next entry, through the status
\* filter and then the domain filter.
EU_Entry ==
  /\ pc = "eu_loop"
  /\ i <= Len(file.entries)
  /\ LET url == RequestUrl(file.entries[i])
         status == ResponseStatus(file.entries[i])
     IN IF StatusKept(status, status_filter) /\ DomainKept(url, filter_domains)
        THEN urls' = AppendUrl(urls, url)
        ELSE urls' = urls
  /\ i' = i + 1
  /\ UNCHANGED <<op, pc, file, filter_domains, status_arg, status_filter,
                 session, j, cookies, processed_cookies, opened, parsed,
                 add_cookies_calls, jar, exc, outcome, result>>

\* HarLoader.extract_urls_from_har: return urls.
EU_Return ==
  /\ pc = "eu_loop"
  /\ i > Len(file.entries)
  /\ result' = urls
  /\ outcome' = "returned"
  /\ pc' = "done"
  /\ UNCHANGED <<op, file, filter_domains, status_arg, status_filter, session,
                 i, j, cookies, processed_cookies, urls, opened, parsed,
                 add_cookies_calls, jar, exc>>

Next ==
  \/ LFH_GetSession
  \/ LC_CheckExists
  \/ LC_Open
  \/ LC_Entry
  \/ LC_Cookie
  \/ LC_Headers
  \/ LC_AddCookies
  \/ LFH_Return
  \/ LFH_Except
  \/ Ext_Call
  \/ EU_Open
  \/ EU_Entry
  \/ EU_Return

Spec == Init /\ [][Next]_vars

\* ------------------------------------------------------------------ claims
CookieOps == {"load_from_har", "load_cookies_from_har"}
UrlOps == {"extract_urls_from_har", "ext_extract_urls_from_har"}

\* load_cookies_from_har has returned its list (to load_from_har or to the
\* caller).
LoadCookiesReturned ==
  /\ op \in CookieOps
  /\ pc \in {"lfh_after", "done"}
  /\ exc = "none"
  /\ op = "load_from_har" => session = "ok"

\* extract_urls_from_har has returned its list.
ExtractUrlsReturned == op \in UrlOps /\ pc = "done" /\ outcome = "returned"

\* The raw cookies of the entries the domain filter keeps, in entry order
\* and then cookie-list order.
RECURSIVE KeptCookies(_, _)
KeptCookies(entries, fd) ==
  IF entries = <<>> THEN <<>>
  ELSE (IF DomainKept(RequestUrl(Head(entries)), fd)
        THEN Head(entries).cookies ELSE <<>>)
       \o KeptCookies(Tail(entries), fd)

\* The (name, domain) pair of a raw cookie and of an emitted record.
Pair(cookie) == <<Get(cookie.name, None), Get(cookie.domain, None)>>
RecPair(rec) == <<rec.name, rec.domain>>

\* C1: the returned cookie sequence holds at most one record per
\* (name, domain) pair, and each record is the one built from the first
\* cookie with its pair among the cookies of the kept entries.
C1_FirstOccurrenceWins ==
  LoadCookiesReturned =>
    LET kept == KeptCookies(file.entries, filter_domains)
    IN /\ \A p, q \in 1..Len(result) :
            p # q => RecPair(result[p]) # RecPair(result[q])
       /\ \A p \in 1..Len(result) :
            \E m \in 1..Len(kept) :
              /\ Pair(kept[m]) = RecPair(result[p])
              /\ \A m2 \in 1..(m - 1) : Pair(kept[m2]) # Pair(kept[m])
              /\ result[p] = CookieObj(kept[m])

\* A later cookie with the pair of an earlier one, and other fields, was
\* dropped.
C1_Witness ==
  /\ LoadCookiesReturned
  /\ Len(result) = 1
  /\ LET kept == KeptCookies(file.entries, filter_domains)
     IN /\ Len(kept) = 2
        /\ Pair(kept[1]) = Pair(kept[2])
        /\ CookieObj(kept[1]) # CookieObj(kept[2])
        /\ result[1] = CookieObj(kept[1])

\* C2: every emitted record's expires is a number (int, float or bool, which
\* Python counts as an int); never None, a string, a list or an object.
C2_ExpiresNumeric ==
  LoadCookiesReturned =>
    \A p \in 1..Len(result) : result[p].expires.t \in {"int", "float", "bool"}

\* The host of a URL: its netloc without userinfo and without port.
Host(url) ==
  LET n == Netloc(url)
      at == CHOOSE k \in 0..Len(n) :
              /\ k = 0 \/ n[k] = "@"
              /\ \A k2 \in (k + 1)..Len(n) : n[k2] # "@"
      h == SubSeq(n, at + 1, Len(n))
  IN SubSeq(h, 1, FindFirst(h, {":"}, 1) - 1)

HostMatches(url, fd) == \E k \in 1..Len(fd.v) : EndsWith(Host(url), fd.v[k])

\* The URLs of the entries that pass the status filter, in file order.
RECURSIVE StatusSurvivors(_, _)
StatusSurvivors(entries, sf) ==
  IF entries = <<>> THEN <<>>
  ELSE (IF StatusKept(ResponseStatus(Head(entries)), sf)
        THEN <<RequestUrl(Head(entries))>> ELSE <<>>)
       \o StatusSurvivors(Tail(entries), sf)

\* C3: with a non-empty domain filter D every returned cookie record's
\* domain and every returned URL's host ends with a member of D, and every
\* entry whose host ends with a member of D is kept; with an empty or absent
\* D no entry is excluded for its domain.
C3_DomainFilter ==
  /\ (LoadCookiesReturned /\ Truthy(filter_domains)) =>
       \A p \in 1..Len(result) :
         /\ result[p].domain.t = "str"
         /\ \E k \in 1..Len(filter_domains.v) :
              EndsWith(result[p].domain.s, filter_domains.v[k])
  /\ (ExtractUrlsReturned /\ Truthy(filter_domains)) =>
       /\ \A p \in 1..Len(result) : HostMatches(result[p], filter_domains)
       /\ \A m \in 1..Len(file.entries) :
            (/\ HostMatches(RequestUrl(file.entries[m]), filter_domains)
             /\ StatusKept(ResponseStatus(file.entries[m]), status_filter))
            => \E p \in 1..Len(result) : result[p] = RequestUrl(file.entries[m])
  /\ (ExtractUrlsReturned /\ ~Truthy(filter_domains)) =>
       result = StatusSurvivors(file.entries, status_filter)

\* The status codes the caller's status_filter argument admits, as the
\* claim has it: the members of a supplied list; every code when the
\* argument is None or left out of HarLoader's call; 200 alone when it is
\* left out of HarExtension's call.
Admitted(status) ==
  CASE status_arg.t = "list" ->
         \E k \in 1..Len(status_arg.v) : status_arg.v[k] = status.n
    [] status_arg.t = "none" -> TRUE
    [] status_arg.t = "unsupplied" ->
         op = "ext_extract_urls_from_har" => status.n = 200

\* C4: every returned URL comes from an entry whose status code (0 when it
\* has none) the status filter admits, the empty list included.
C4_StatusFilter ==
  ExtractUrlsReturned =>
    \A p \in 1..Len(result) :
      \E m \in 1..Len(file.entries) :
        /\ RequestUrl(file.entries[m]) = result[p]
        /\ Admitted(ResponseStatus(file.entries[m]))

\* The URLs of the entries that pass the status filter and the domain
\* filter, in file order, one per entry.
RECURSIVE Survivors(_, _, _)
Survivors(entries, sf, fd) ==
  IF entries = <<>> THEN <<>>
  ELSE (IF /\ StatusKept(ResponseStatus(Head(entries)), sf)
           /\ DomainKept(RequestUrl(Head(entries)), fd)
        THEN <<RequestUrl(Head(entries))>> ELSE <<>>)
       \o Survivors(Tail(entries), sf, fd)

\* C5: extract_urls_from_har returns exactly the request URLs of the entries
\* that pass both filters, in file order and with their multiplicity.
C5_UrlSubsequence ==
  ExtractUrlsReturned =>
    result = Survivors(file.entries, status_filter, filter_domains)

\* Two surviving entries with one URL: the URL is returned twice.
C5_Witness ==
  /\ ExtractUrlsReturned
  /\ Truthy(filter_domains)
  /\ Truthy(status_filter)
  /\ Len(result) = 2
  /\ result[1] = result[2]

\* C6: load_from_har without a session, or with a session that has no
\* context, returns normally; the file is not opened, extraction is not
\* started, add_cookies is not called and the jar is unchanged.
C6_NoSessionSoftFail ==
  (op = "load_from_har" /\ session \in {"none", "nocontext"}) =>
    /\ pc = "done"
    /\ outcome = "returned"
    /\ exc = "none"
    /\ ~opened
    /\ ~parsed
    /\ cookies = <<>>
    /\ processed_cookies = {}
    /\ add_cookies_calls = <<>>
    /\ jar = <<>>

\* A session without a context and a path that names no file.
C6_Witness ==
  /\ op = "load_from_har"
  /\ session = "nocontext"
  /\ file.kind = "missing"
  /\ outcome = "returned"

\* C7: load_from_har with a session: a failure of the extraction or of the
\* injection is raised to the caller, never a normal return; after a
\* failure of the extraction add_cookies was not called and the jar is
\* unchanged.
C7_FailuresPropagate ==
  (op = "load_from_har" /\ session = "ok") =>
    /\ exc # "none" =>
         /\ outcome # "returned"
         /\ pc = "done" => outcome = exc
    /\ (pc = "done" /\ file.kind = "missing") => outcome = "FileNotFoundError"
    /\ (pc = "done" /\ file.kind = "malformed") => outcome = "JSONDecodeError"
    /\ exc \in {"FileNotFoundError", "JSONDecodeError"} =>
         add_cookies_calls = <<>> /\ jar = <<>>

\* The injection failed and load_from_har raised its exception.
C7_Witness ==
  /\ op = "load_from_har"
  /\ session = "ok"
  /\ pc = "done"
  /\ exc = "AddCookiesError"
  /\ outcome = "AddCookiesError"
  /\ Len(add_cookies_calls) = 1

C9_OneRecordPerPair ==
  LoadCookiesReturned =>
    LET kept == KeptCookies(file.entries, filter_domains)
    IN Len(result) = Cardinality({Pair(kept[m]) : m \in 1..Len(kept)})

\* C10: add_cookies is called at most once, only after the entry loop, with
\* the list that is returned, and exactly when that list is not empty.
C10_InjectOnceIffNonEmpty ==
  op \in CookieOps =>
    /\ Len(add_cookies_calls) <= 1
    /\ add_cookies_calls # <<>> =>
         /\ pc \in {"lfh_after", "lfh_except", "done"}
         /\ i > Len(file.entries)
         /\ add_cookies_calls[1] = cookies
    /\ LoadCookiesReturned =>
         /\ (add_cookies_calls # <<>>) <=> (result # <<>>)
         /\ add_cookies_calls # <<>> => add_cookies_calls[1] = result

\* A document with cookies, none of them in a kept entry: nothing is
\* injected and the empty list is returned.
C10_Witness ==
  /\ op = "load_cookies_from_har"
  /\ outcome = "returned"
  /\ \E m \in 1..Len(file.entries) : file.entries[m].cookies # <<>>
  /\ result = <<>>
  /\ add_cookies_calls = <<>>

====
